---- MODULE Spec2Model ----
(***************************************************************************)
(* Gallery media pipeline of la-wed-be: the media orchestrator             *)
(* (services/galleryMediaService.js), the object store client              *)
(* (services/storageService.js), the video processor                       *)
(* (services/videoProcessingService.js), the gallery routes with their     *)
(* featured cache (routes/gallery.js) and the admin gallery routes         *)
(* (routes/admin/gallery.js).                                              *)
(*                                                                         *)
(* State: the catalog table (prisma.galleryMedia), the object store        *)
(* bucket, the module-level featuredCache slot, the wall clock, the        *)
(* sources of fresh identifiers, the answer of the last call, and what is  *)
(* in progress between two steps of a handler: the items of a reorder      *)
(* request that has passed its existence check, PutObject requests still   *)
(* in flight, the files in /tmp and the video-processing invocations       *)
(* waiting for ffmpeg, a featured read waiting for its query, and a        *)
(* retention sweep inside its loop.                                        *)
(* Every handler is one action, except where a specification splits one    *)
(* at its await points: SpecInterleave (gallery reorder), SpecCacheRace    *)
(* (featured read), SpecSweepRace (retention sweep), SpecVideo (metadata   *)
(* probe and thumbnail generation), and the variant uploads that           *)
(* Promise.all leaves running in SpecUpload.  SpecSweep runs the retention *)
(* sweep and the storage deletes with the clock advancing in units and in  *)
(* whole days; SpecUpdate runs metadata updates with every kind of field.  *)
(***************************************************************************)
EXTENDS Integers, Sequences, FiniteSets, TLC

VARIABLES catalog, store, featuredCache, now, nextId, nextUuid, resp, reordering,
          inflight, scratch, procs, reading, sweeping

\* what is in progress outside the handler that is running: the PutObject
\* requests still in flight, the files in /tmp, the video-processing
\* invocations waiting for their decode tool, the featured read waiting for
\* its query (<<>>: none), and the retention sweep between two of its
\* hard deletes (<<>>: none)
background == <<inflight, scratch, procs, reading, sweeping>>

vars == <<catalog, store, featuredCache, now, nextId, nextUuid, resp, reordering,
          background>>

(* ------------------------------ bounds -------------------------------- *)

\* rows the catalog ever receives (ids are 1..MaxRows)
MaxRows == 2
\* the clock runs from 1 to MaxTime
MaxTime == 3
\* whole days the clock can be advanced by
MaxDays == 2
\* video-processing invocations that run at the same time
MaxProcs == 2
\* Date.now() takes the milliseconds 0..MaxMillis within one unit of the clock
MaxMillis == 1

(* --------------------------- program constants ------------------------ *)

MB == 1048576
\* MEDIA_CONFIG.images.maxSize / FILE_SIZE_LIMITS.image, bytes
imageMaxSize == 10485760
\* MEDIA_CONFIG.videos.maxSize / FILE_SIZE_LIMITS.video, bytes
videoMaxSize == 104857600
\* milliseconds in one unit of the clock (Date.now() counts milliseconds)
ClockUnit == 5 * 60 * 1000
\* featuredCache.ttl: 5 * 60 * 1000 ms, in units of the clock
ttl == (5 * 60 * 1000) \div ClockUnit
\* take: 10 of the featured queries
featuredLimit == 10
\* one day of setDate(getDate() - olderThanDays), in units of the clock
Day == (24 * 60 * 60 * 1000) \div ClockUnit

\* deletedAt: null and featuredCache.timestamp: null (the clock starts at 1)
NoTime == 0
\* a null text column
NULL == "null"

imageAllowedTypes == {"image/jpeg", "image/png", "image/webp", "image/tiff"}
videoAllowedTypes == {"video/mp4", "video/quicktime", "video/x-msvideo"}
ALLOWED_TYPES_image == {"image/jpeg", "image/jpg", "image/png", "image/webp"}
ALLOWED_TYPES_video == {"video/mp4", "video/quicktime", "video/x-msvideo"}
Categories == {"wedding", "engagement", "pre-wedding", "ceremony", "reception", "other"}
variantSizes == {"thumbnail", "medium", "large"}
imageVariantNames == {"original", "thumbnail", "medium", "large"}
videoVariantNames == {"original", "thumbnail"}
\* process.env.R2_PUBLIC_URL
publicUrl == "https://pub.r2.dev"

(* ------------------------------ inputs -------------------------------- *)

\* uploaded files: [originalname, mimetype, size]
Files ==
  { [originalname |-> "a.jpg",  mimetype |-> "image/jpeg",      size |-> 3 * MB],
    [originalname |-> "b.jpg",  mimetype |-> "image/jpeg",      size |-> 11 * MB],
    [originalname |-> "c.jpg",  mimetype |-> "image/jpg",       size |-> 1 * MB],
    [originalname |-> "d.tiff", mimetype |-> "image/tiff",      size |-> 12 * MB],
    [originalname |-> "e.pdf",  mimetype |-> "application/pdf", size |-> 1 * MB],
    [originalname |-> "v.mp4",  mimetype |-> "video/mp4",       size |-> 20 * MB],
    [originalname |-> "w.mp4",  mimetype |-> "video/mp4",       size |-> 101 * MB],
    [originalname |-> "x.mkv",  mimetype |-> "video/x-matroska", size |-> 2 * MB] }

\* where an upload breaks: nowhere, at the dimension/metadata probe, at the
\* write of the original, at the generation of the derived buffers, at the
\* write of the derived objects named in sizes, or at the catalog insert
Faults ==
  { [at |-> a, sizes |-> {}] : a \in {"none", "probe", "original", "generate", "db"} }
  \cup { [at |-> "variants", sizes |-> s] : s \in (SUBSET variantSizes) \ {{}} }

NoFault == [at |-> "none", sizes |-> {}]

\* request bodies of POST /api/gallery (the fields the claims read)
Bodies ==
  [category : {NULL, "wedding"}, featured : BOOLEAN, displayOrder : {0, 1}]

(* ------------------------- object store client ------------------------ *)

\* path.extname(originalFilename)
extname(filename) ==
  CASE filename \in {"a.jpg", "b.jpg", "c.jpg"} -> ".jpg"
    [] filename = "d.tiff" -> ".tiff"
    [] filename = "e.pdf" -> ".pdf"
    [] filename \in {"v.mp4", "w.mp4"} -> ".mp4"
    [] OTHER -> ".mkv"

\* A string naming an object: base is the part before the key ("" for a bare
\* key), the rest is gallery/{dir}/{date}/{uuid}{-size}{ext}.
generateGalleryKey(mediaType, originalFilename, size, uuid) ==
  [ base |-> "",
    dir  |-> mediaType,
    uuid |-> uuid,
    size |-> size,
    ext  |-> IF size = "original" THEN extname(originalFilename) ELSE ".webp" ]

\* a public URL that always names the original
generatePublicUrl_original(key) == [key EXCEPT !.base = publicUrl, !.size = "original"]

\* `${this.publicUrl}/${key}`
generatePublicUrl(key) == [key EXCEPT !.base = publicUrl]

\* url.replace(`${this.publicUrl}/`, '')
extractKeyFromUrl(url) == [url EXCEPT !.base = ""]

(* ------------------------------ validation ---------------------------- *)

\* file.mimetype.startsWith('video/')
startsWithVideo(mimetype) ==
  mimetype \in {"video/mp4", "video/quicktime", "video/x-msvideo", "video/x-matroska"}

\* validateMediaFile with the size comparison left out
validateMediaFile_noSize(file, mediaType) ==
  LET allowedTypes == IF mediaType = "video" THEN videoAllowedTypes ELSE imageAllowedTypes
  IN  file.mimetype \in allowedTypes

\* validateMediaFile does not throw
validateMediaFile(file, mediaType) ==
  LET allowedTypes == IF mediaType = "video" THEN videoAllowedTypes ELSE imageAllowedTypes
      maxSize == IF mediaType = "video" THEN videoMaxSize ELSE imageMaxSize
  IN  /\ file.mimetype \in allowedTypes
      /\ ~(file.size > maxSize)

\* VideoProcessingService.validateVideo does not throw
validateVideo(file) ==
  /\ file.mimetype \in videoAllowedTypes
  /\ ~(file.size > videoMaxSize)

(* --------------------------- upload pipeline -------------------------- *)

\* What one upload call did: ok (it returned), stage (where it threw),
\* writes (objects put into the bucket before it settled), racing (objects
\* whose PutObject was started and not awaited to its end), uuids (keys it
\* generated), and, when ok, the result's mediaType, r2Keys and r2Urls.
Thrown(stage, writes, uuids) ==
  [ok |-> FALSE, stage |-> stage, writes |-> writes, racing |-> {}, uuids |-> uuids,
   mediaType |-> "", r2Keys |-> <<>>, r2Urls |-> <<>>]

\* generateImageVariants: the three uploads are started together and awaited
\* with Promise.all, which rejects at the first rejection; the uploads that do
\* not fail are then still running or already done
variantUploads(r2Keys, failing) == {r2Keys[v] : v \in variantSizes \ failing}

\* uploadImage with the derived writes settled one by one (Promise.allSettled
\* in place of Promise.all): a failed derived write no longer throws
uploadImage_allSettled(file, fault, u) ==
  LET r2Keys == [v \in imageVariantNames |->
                   generateGalleryKey("images", file.originalname, v,
                     CASE v = "original" -> u
                       [] v = "thumbnail" -> u + 1
                       [] v = "medium" -> u + 2
                       [] OTHER -> u + 3)]
  IN  IF ~validateMediaFile(file, "image") THEN Thrown("validation", {}, 0)
      ELSE IF fault.at = "probe" THEN Thrown("processing", {}, 0)
      ELSE IF fault.at = "original" THEN Thrown("storage", {}, 1)
      ELSE IF fault.at = "generate" THEN Thrown("processing", {r2Keys["original"]}, 1)
      ELSE [ok |-> TRUE, stage |-> "done",
            writes |-> {r2Keys[v] : v \in imageVariantNames \ fault.sizes}, racing |-> {}, uuids |-> 4,
            mediaType |-> "image", r2Keys |-> r2Keys,
            r2Urls |-> [v \in imageVariantNames |-> generatePublicUrl(r2Keys[v])]]

\* galleryMediaService.uploadImage(file, metadata); u is the next fresh uuid
uploadImage(file, fault, u) ==
  LET originalKey == generateGalleryKey("images", file.originalname, "original", u)
      thumbKey    == generateGalleryKey("images", file.originalname, "thumbnail", u + 1)
      mediumKey   == generateGalleryKey("images", file.originalname, "medium", u + 2)
      largeKey    == generateGalleryKey("images", file.originalname, "large", u + 3)
      r2Keys      == [v \in imageVariantNames |->
                        CASE v = "original" -> originalKey
                          [] v = "thumbnail" -> thumbKey
                          [] v = "medium" -> mediumKey
                          [] OTHER -> largeKey]
  IN  IF ~validateMediaFile(file, "image") THEN Thrown("validation", {}, 0)
      ELSE IF fault.at = "probe" THEN Thrown("processing", {}, 0)
      ELSE IF fault.at = "original" THEN Thrown("storage", {}, 1)
      ELSE IF fault.at = "generate" THEN Thrown("processing", {originalKey}, 1)
      ELSE IF fault.at = "variants"
        THEN [Thrown("storage", {originalKey}, 4)
                EXCEPT !.racing = variantUploads(r2Keys, fault.sizes)]
      ELSE [ok |-> TRUE, stage |-> "done",
            writes |-> {r2Keys[v] : v \in imageVariantNames}, racing |-> {}, uuids |-> 4,
            mediaType |-> "image", r2Keys |-> r2Keys,
            r2Urls |-> [v \in imageVariantNames |-> generatePublicUrl(r2Keys[v])]]

\* galleryMediaService.uploadVideo -> videoProcessingService.uploadVideo
uploadVideo(file, fault, u) ==
  LET videoKey     == generateGalleryKey("videos", file.originalname, "original", u)
      thumbnailKey == generateGalleryKey("videos", file.originalname, "thumbnail", u + 1)
      r2Keys       == [v \in videoVariantNames |->
                         IF v = "original" THEN videoKey ELSE thumbnailKey]
  IN  IF ~validateVideo(file) THEN Thrown("validation", {}, 0)
      ELSE IF fault.at = "probe" THEN Thrown("processing", {}, 0)
      ELSE IF fault.at = "original" THEN Thrown("storage", {}, 2)
      ELSE IF fault.at = "generate" THEN Thrown("processing", {videoKey}, 2)
      ELSE IF fault.at = "variants" /\ "thumbnail" \in fault.sizes
        THEN Thrown("storage", {videoKey}, 2)
      ELSE [ok |-> TRUE, stage |-> "done",
            writes |-> {videoKey, thumbnailKey}, racing |-> {}, uuids |-> 2,
            mediaType |-> "video", r2Keys |-> r2Keys,
            r2Urls |-> [v \in videoVariantNames |-> generatePublicUrl(r2Keys[v])]]

\* the entries of an r2Urls object
urlPairs(r2Urls) == {[name |-> v, url |-> r2Urls[v]] : v \in DOMAIN r2Urls}

\* galleryMediaService.uploadMedia(file, metadata)
uploadMedia(file, fault, u) ==
  IF startsWithVideo(file.mimetype)
    THEN uploadVideo(file, fault, u)
    ELSE uploadImage(file, fault, u)

(* ------------------------------- answers ------------------------------ *)

\* featuredCache.data = null
NoData == [success |-> FALSE, items |-> <<>>]

NoFile == [originalname |-> "", mimetype |-> "", size |-> 0]

\* The answer of the last call: op names the handler or service method, status
\* its HTTP status (service methods: 200 returned, 404 not-found thrown, 500
\* thrown), and the rest what the call was given and what it did.
Answer(op, status) ==
  [ op        |-> op,
    status    |-> status,
    id        |-> 0,          \* the id the call named or created
    file      |-> NoFile,     \* the file an upload was given
    featured  |-> FALSE,      \* the featured flag an upload was given
    permanent |-> FALSE,      \* the request carried ?permanent=true
    stage     |-> "",         \* where an upload stopped
    handler   |-> "",         \* the route a request was dispatched to
    writes    |-> {},         \* objects put into the bucket
    paths     |-> {},         \* scratch files a video-processing call created
    urls      |-> {},         \* the r2Urls map of an upload result, as pairs
    deletes   |-> {},         \* keys of the DeleteObject requests sent
    failed    |-> {},         \* keys whose DeleteObject failed
    rows      |-> {},         \* catalog rows returned by a service read
    before    |-> {},         \* the row a soft delete or restore found
    ids       |-> {},         \* the ids a bulk call was given
    keys      |-> {},         \* the keys a storage call was given
    result    |-> {},         \* the value a storage call returned, if any
    days      |-> 0,          \* olderThanDays of a retention sweep
    deletedCount |-> 0,       \* the sweep's counters
    failedCount  |-> 0,
    data      |-> NoData,     \* payload of a featured read
    xcache    |-> "",         \* X-Cache header
    queried   |-> FALSE,      \* the featured read queried the catalog
    items     |-> <<>>,       \* the items of a reorder request
    missing   |-> <<>> ]      \* missingIds of a reorder answer

(* -------------------------------- catalog ----------------------------- *)

Ids == 1..MaxRows

\* rows with deletedAt: null
Live(cat) == {i \in DOMAIN cat : cat[i].deletedAt = NoTime}

\* prisma.galleryMedia.update / delete on a missing row throws P2025
Exists(cat, id) == id \in DOMAIN cat

\* cat with row id removed
Without(cat, id) == [i \in (DOMAIN cat) \ {id} |-> cat[i]]

\* an id generator that hands out the lowest id no row holds
createId_reuse(cat, next) ==
  CHOOSE i \in 1..next : i \notin DOMAIN cat /\ \A j \in 1..(i - 1) : j \in DOMAIN cat

\* the id the database gives the next row
createId(cat, next) == next

\* createMediaRecord(uploadResult, additionalMetadata): the row inserted
createMediaRecord(uploadResult, file, metadata) ==
  [ filename     |-> file.originalname,
    mediaType    |-> uploadResult.mediaType,
    category     |-> IF metadata.category # NULL THEN metadata.category ELSE "general",
    r2ObjectKey  |-> uploadResult.r2Keys["original"],
    r2Urls       |-> uploadResult.r2Urls,
    featured     |-> metadata.featured,
    displayOrder |-> metadata.displayOrder,
    deletedAt    |-> NoTime ]

(* ------------------------------- Init --------------------------------- *)

Init ==
  /\ catalog = <<>>
  /\ store = {}
  /\ featuredCache = [data |-> NoData, timestamp |-> NoTime, ttl |-> ttl]
  /\ now = 1
  /\ nextId = 1
  /\ nextUuid = 1
  /\ resp = Answer("init", 0)
  /\ reordering = <<>>
  /\ inflight = {}
  /\ scratch = {}
  /\ procs = <<>>
  /\ reading = <<>>
  /\ sweeping = <<>>

\* time passes between requests
Tick ==
  /\ now < MaxTime
  /\ now' = now + 1
  /\ resp' = Answer("tick", 0)
  /\ UNCHANGED <<catalog, store, featuredCache, nextId, nextUuid>>
  /\ UNCHANGED <<reordering, background>>

\* a day passes between requests
TickDay ==
  /\ now + Day <= MaxDays * Day + MaxTime
  /\ now' = now + Day
  /\ resp' = Answer("tick day", 0)
  /\ UNCHANGED <<catalog, store, featuredCache, nextId, nextUuid>>
  /\ UNCHANGED <<reordering, background>>

(* --------------------------- POST /api/gallery ------------------------ *)

\* galleryUpload.js fileFilter, multer's limits.fileSize and validateFileSize:
\* 0 when the file passes, else the status answered
uploadMiddleware(file) ==
  LET isImage == file.mimetype \in ALLOWED_TYPES_image
      isVideo == file.mimetype \in ALLOWED_TYPES_video
      maxSize == IF isImage THEN imageMaxSize ELSE videoMaxSize
  IN  IF ~isImage /\ ~isVideo THEN 400
      ELSE IF file.size > videoMaxSize THEN 413
      ELSE IF file.size > maxSize THEN 413
      ELSE 0

\* validateGalleryUpload / validateGalleryUpdate: category
validCategory(category) == category = NULL \/ category \in Categories

\* a failed upload that takes back the objects it wrote
afterFailure_rollback(bucket, written) == bucket

\* the bucket after an upload that failed: the catch blocks log and rethrow
\* (or answer 500), no DeleteObject is sent
afterFailure(bucket, written) == bucket \cup written

\* router.post('/'): middleware, uploadMedia, createMediaRecord, cache clear
PostGallery(file, body, fault) ==
  /\ nextId <= MaxRows
  /\ nextUuid + 3 <= 4 * MaxRows
  /\ LET mw  == uploadMiddleware(file)
         out == uploadMedia(file, fault, nextUuid)
         a   == [Answer("POST", 0) EXCEPT !.file = file, !.featured = body.featured]
     IN  IF mw # 0 \/ ~validCategory(body.category)
           THEN /\ resp' = [a EXCEPT !.status = IF mw # 0 THEN mw ELSE 400,
                                     !.stage = "middleware"]
                /\ UNCHANGED <<catalog, store, featuredCache, now, nextId, nextUuid>>
                /\ UNCHANGED inflight
         ELSE IF ~out.ok \/ fault.at = "db"
           THEN \E late \in SUBSET out.racing :
                /\ store' = afterFailure(store, out.writes \cup (out.racing \ late))
                /\ inflight' = inflight \cup late
                /\ nextUuid' = nextUuid + out.uuids
                /\ resp' = [a EXCEPT !.status = 500,
                                     !.writes = out.writes \cup (out.racing \ late),
                                     !.stage = IF out.ok THEN "db" ELSE out.stage]
                /\ UNCHANGED <<catalog, featuredCache, now, nextId>>
         ELSE /\ store' = store \cup out.writes
              /\ UNCHANGED inflight
              /\ nextUuid' = nextUuid + out.uuids
              /\ catalog' = [i \in DOMAIN catalog \cup {createId(catalog, nextId)} |->
                               IF i \in DOMAIN catalog THEN catalog[i]
                               ELSE createMediaRecord(out, file, body)]
              /\ nextId' = nextId + 1
              /\ featuredCache' = IF body.featured
                                    THEN [featuredCache EXCEPT !.data = NoData]
                                    ELSE featuredCache
              /\ resp' = [a EXCEPT !.status = 201, !.writes = out.writes,
                                   !.stage = "done", !.urls = urlPairs(out.r2Urls),
                                   !.id = createId(catalog, nextId)]
              /\ UNCHANGED now
  /\ UNCHANGED <<reordering, scratch, procs, reading, sweeping>>

\* galleryMediaService.uploadMedia(file, metadata) called on its own
UploadMedia(file, fault) ==
  /\ nextUuid + 3 <= 4 * MaxRows
  /\ fault.at # "db"
  /\ LET out == uploadMedia(file, fault, nextUuid)
     IN  \E late \in SUBSET out.racing :
         /\ store' = IF out.ok THEN store \cup out.writes
                      ELSE afterFailure(store, out.writes \cup (out.racing \ late))
         /\ inflight' = inflight \cup late
         /\ nextUuid' = nextUuid + out.uuids
         /\ resp' = [Answer("uploadMedia", IF out.ok THEN 200 ELSE 500)
                       EXCEPT !.file = file,
                              !.writes = out.writes \cup (out.racing \ late),
                              !.stage = out.stage,
                              !.urls = urlPairs(out.r2Urls)]
  /\ UNCHANGED <<catalog, featuredCache, now, nextId>>
  /\ UNCHANGED <<reordering, scratch, procs, reading, sweeping>>

\* a PutObject that was still running when its upload call threw comes to
\* its end: the object is in the bucket when done, absent when it failed
PutObjectSettles(key, done) ==
  /\ key \in inflight
  /\ inflight' = inflight \ {key}
  /\ store' = IF done THEN store \cup {key} ELSE store
  /\ resp' = [Answer("PutObject", IF done THEN 200 ELSE 500) EXCEPT !.writes = {key}]
  /\ UNCHANGED <<catalog, featuredCache, now, nextId, nextUuid>>
  /\ UNCHANGED <<reordering, scratch, procs, reading, sweeping>>

(* ---------------------------- video processor ------------------------- *)

\* `/tmp/${prefix}-${Date.now()}${ext}`: Date.now() is the clock unit and the
\* millisecond within it
tempPath(prefix, time, ms, ext) == [prefix |-> prefix, time |-> time, ms |-> ms, ext |-> ext]

NoPath == [prefix |-> "", time |-> 0, ms |-> 0, ext |-> ""]

\* the scratch paths of an invocation
pathsOf(proc) == {proc.video, proc.thumb} \ {NoPath}

\* the invocation number given to the next call
freePid(running) == CHOOSE i \in 1..MaxProcs : i \notin DOMAIN running

\* running with invocation pid added / removed
Started(running, pid, proc) ==
  [i \in DOMAIN running \cup {pid} |-> IF i = pid THEN proc ELSE running[i]]

Settled(running, pid) == [i \in (DOMAIN running) \ {pid} |-> running[i]]

\* extractMetadata(buffer), up to the call of ffprobe: tempPath is named
\* from Date.now() and the buffer written to it
ExtractMetadataStart(ms) ==
  /\ Cardinality(DOMAIN procs) < MaxProcs
  /\ LET tempPath_ == tempPath("video", now, ms, ".mp4")
         proc == [kind |-> "extractMetadata", video |-> tempPath_, thumb |-> NoPath]
     IN  /\ scratch' = scratch \cup {tempPath_}
         /\ procs' = Started(procs, freePid(procs), proc)
         /\ resp' = [Answer("extractMetadata start", 0) EXCEPT !.paths = {tempPath_}]
  /\ UNCHANGED <<catalog, store, featuredCache, now, nextId, nextUuid>>
  /\ UNCHANGED <<reordering, inflight, reading, sweeping>>

\* the ffprobe callback of extractMetadata: unlink tempPath (a failing unlink
\* is caught), then reject on err or on a missing video stream, else resolve
FfprobeCallback(pid, outcome) ==
  /\ pid \in DOMAIN procs
  /\ procs[pid].kind = "extractMetadata"
  /\ scratch' = scratch \ {procs[pid].video}
  /\ procs' = Settled(procs, pid)
  /\ resp' = [Answer("extractMetadata", IF outcome = "ok" THEN 200 ELSE 500)
                EXCEPT !.stage = outcome, !.paths = pathsOf(procs[pid])]
  /\ UNCHANGED <<catalog, store, featuredCache, now, nextId, nextUuid>>
  /\ UNCHANGED <<reordering, inflight, reading, sweeping>>

\* generateThumbnail(videoBuffer, originalFilename), up to the call of
\* screenshots: both paths are named from Date.now(), the buffer is written
\* to tempVideoPath
GenerateThumbnailStart(ms1, ms2) ==
  /\ Cardinality(DOMAIN procs) < MaxProcs
  /\ ms1 <= ms2
  /\ LET tempVideoPath == tempPath("video", now, ms1, ".mp4")
         tempThumbPath == tempPath("thumb", now, ms2, ".png")
         proc == [kind |-> "generateThumbnail", video |-> tempVideoPath,
                  thumb |-> tempThumbPath]
     IN  /\ scratch' = scratch \cup {tempVideoPath}
         /\ procs' = Started(procs, freePid(procs), proc)
         /\ resp' = [Answer("generateThumbnail start", 0) EXCEPT !.paths = {tempVideoPath}]
  /\ UNCHANGED <<catalog, store, featuredCache, now, nextId, nextUuid>>
  /\ UNCHANGED <<reordering, inflight, reading, sweeping>>

\* the 'end' handler of generateThumbnail; outcome: "ok", "read" (no frame
\* file to read), "sharp" (re-encoding the frame throws).  When reading or
\* re-encoding throws, the catch rejects and unlinks nothing; on "ok" the two
\* unlinks share one try, so the second is skipped when the first throws
ScreenshotsEnd(pid, outcome) ==
  /\ pid \in DOMAIN procs
  /\ procs[pid].kind = "generateThumbnail"
  /\ LET proc    == procs[pid]
         written == IF outcome = "read" THEN scratch ELSE scratch \cup {proc.thumb}
     IN  /\ scratch' = IF outcome # "ok" THEN written
                        ELSE IF proc.video \in written
                          THEN written \ {proc.video, proc.thumb}
                        ELSE written
         /\ resp' = [Answer("generateThumbnail", IF outcome = "ok" THEN 200 ELSE 500)
                       EXCEPT !.stage = outcome,
                              !.paths = IF outcome = "read" THEN {proc.video}
                                        ELSE pathsOf(proc)]
  /\ procs' = Settled(procs, pid)
  /\ UNCHANGED <<catalog, store, featuredCache, now, nextId, nextUuid>>
  /\ UNCHANGED <<reordering, inflight, reading, sweeping>>

\* the 'error' handler of generateThumbnail: unlink tempVideoPath, reject
ScreenshotsError(pid) ==
  /\ pid \in DOMAIN procs
  /\ procs[pid].kind = "generateThumbnail"
  /\ scratch' = scratch \ {procs[pid].video}
  /\ procs' = Settled(procs, pid)
  /\ resp' = [Answer("generateThumbnail", 500)
                EXCEPT !.stage = "error", !.paths = {procs[pid].video}]
  /\ UNCHANGED <<catalog, store, featuredCache, now, nextId, nextUuid>>
  /\ UNCHANGED <<reordering, inflight, reading, sweeping>>

(* ---------------------------- service reads --------------------------- *)

Range(seq) == {seq[i] : i \in DOMAIN seq}

\* the first n elements: take: n
Take(seq, n) == SubSeq(seq, 1, IF Len(seq) < n THEN Len(seq) ELSE n)

\* the orders in which the database may return the rows S under
\* orderBy: { displayOrder: 'asc' } (rows with equal displayOrder in any order)
ByDisplayOrder(cat, S) ==
  { seq \in [1..Cardinality(S) -> S] :
      /\ \A i, j \in DOMAIN seq : i # j => seq[i] # seq[j]
      /\ \A i, j \in DOMAIN seq : i < j => cat[seq[i]].displayOrder <= cat[seq[j]].displayOrder }

\* a row as findUnique / findMany return it
Row(cat, id) == [id |-> id, row |-> cat[id]]

\* where: { id, deletedAt: null } of getMediaById
whereById(cat, id) == {i \in DOMAIN cat : i = id /\ cat[i].deletedAt = NoTime}

\* the where of getMediaList without deletedAt: null
whereList_noDeletedAt(cat, category, mediaType, featured) ==
  {i \in DOMAIN cat :
     /\ (category # NULL => cat[i].category = category)
     /\ (mediaType # NULL => cat[i].mediaType = mediaType)
     /\ (featured # "any" => cat[i].featured = (featured = "true"))}

\* where of getMediaList(filters): deletedAt: null and the filters given
\* (NULL and "any": the filter is absent)
whereList(cat, category, mediaType, featured) ==
  {i \in DOMAIN cat :
     /\ cat[i].deletedAt = NoTime
     /\ (category # NULL => cat[i].category = category)
     /\ (mediaType # NULL => cat[i].mediaType = mediaType)
     /\ (featured # "any" => cat[i].featured = (featured = "true"))}

\* where of searchMedia(query): deletedAt: null and a text column contains query
whereSearch(cat, query) ==
  {i \in DOMAIN cat : cat[i].deletedAt = NoTime /\ cat[i].filename = query}

\* where of getMediaByCategory(category)
whereCategory(cat, category) ==
  {i \in DOMAIN cat : cat[i].category = category /\ cat[i].deletedAt = NoTime}

\* where of getFeaturedMedia and of GET /api/gallery/featured
whereFeatured(cat) ==
  {i \in DOMAIN cat : cat[i].featured = TRUE /\ cat[i].deletedAt = NoTime}

getMediaById(id) ==
  /\ resp' = [Answer("getMediaById", IF whereById(catalog, id) = {} THEN 404 ELSE 200)
                EXCEPT !.id = id,
                       !.rows = {Row(catalog, i) : i \in whereById(catalog, id)}]
  /\ UNCHANGED <<catalog, store, featuredCache, now, nextId, nextUuid>>
  /\ UNCHANGED <<reordering, background>>

getMediaList(category, mediaType, featured) ==
  /\ resp' = [Answer("getMediaList", 200)
                EXCEPT !.rows = {Row(catalog, i) :
                                   i \in whereList(catalog, category, mediaType, featured)}]
  /\ UNCHANGED <<catalog, store, featuredCache, now, nextId, nextUuid>>
  /\ UNCHANGED <<reordering, background>>

searchMedia(query) ==
  /\ resp' = [Answer("searchMedia", 200)
                EXCEPT !.rows = {Row(catalog, i) : i \in whereSearch(catalog, query)}]
  /\ UNCHANGED <<catalog, store, featuredCache, now, nextId, nextUuid>>
  /\ UNCHANGED <<reordering, background>>

getMediaByCategory(category, limit) ==
  /\ \E seq \in ByDisplayOrder(catalog, whereCategory(catalog, category)) :
       resp' = [Answer("getMediaByCategory", 200)
                  EXCEPT !.rows = {Row(catalog, i) : i \in Range(Take(seq, limit))}]
  /\ UNCHANGED <<catalog, store, featuredCache, now, nextId, nextUuid>>
  /\ UNCHANGED <<reordering, background>>

getFeaturedMedia(limit) ==
  /\ \E seq \in ByDisplayOrder(catalog, whereFeatured(catalog)) :
       resp' = [Answer("getFeaturedMedia", 200)
                  EXCEPT !.rows = {Row(catalog, i) : i \in Range(Take(seq, limit))}]
  /\ UNCHANGED <<catalog, store, featuredCache, now, nextId, nextUuid>>
  /\ UNCHANGED <<reordering, background>>

(* --------------------------- service mutations ------------------------ *)

\* prisma update: row id with the fields of data replaced
Updated(cat, id, data) ==
  [cat EXCEPT ![id] = [f \in DOMAIN cat[id] |->
                         IF f \in DOMAIN data THEN data[f] ELSE cat[id][f]]]

\* updateMediaMetadata(id, metadata): update where { id }
updateMediaMetadata(id, metadata) ==
  /\ IF Exists(catalog, id)
       THEN /\ catalog' = Updated(catalog, id, metadata)
            /\ resp' = [Answer("updateMediaMetadata", 200) EXCEPT !.id = id]
       ELSE /\ resp' = [Answer("updateMediaMetadata", 404) EXCEPT !.id = id]
            /\ UNCHANGED catalog
  /\ UNCHANGED <<store, featuredCache, now, nextId, nextUuid>>
  /\ UNCHANGED <<reordering, background>>

\* a soft delete that also takes the row out of the featured set
softDeleted_unfeature(row, time) == [row EXCEPT !.deletedAt = time, !.featured = FALSE]

\* the row after the soft delete's update: data { deletedAt: new Date() }
softDeleted(row, time) == [row EXCEPT !.deletedAt = time]

\* deleteMedia(id): update where { id }, data { deletedAt: new Date() }
deleteMedia(id) ==
  /\ IF Exists(catalog, id)
       THEN /\ catalog' = [catalog EXCEPT ![id] = softDeleted(@, now)]
            /\ resp' = [Answer("deleteMedia", 200)
                          EXCEPT !.id = id, !.before = {Row(catalog, id)}]
       ELSE /\ resp' = [Answer("deleteMedia", 404) EXCEPT !.id = id]
            /\ UNCHANGED catalog
  /\ UNCHANGED <<store, featuredCache, now, nextId, nextUuid>>
  /\ UNCHANGED <<reordering, background>>

\* restoreDeletedMedia(id): update where { id }, data { deletedAt: null }
restoreDeletedMedia(id) ==
  /\ IF Exists(catalog, id)
       THEN /\ catalog' = [catalog EXCEPT ![id].deletedAt = NoTime]
            /\ resp' = [Answer("restoreDeletedMedia", 200)
                          EXCEPT !.id = id, !.before = {Row(catalog, id)}]
       ELSE /\ resp' = [Answer("restoreDeletedMedia", 404) EXCEPT !.id = id]
            /\ UNCHANGED catalog
  /\ UNCHANGED <<store, featuredCache, now, nextId, nextUuid>>
  /\ UNCHANGED <<reordering, background>>

\* bulkDeleteMedia(ids): updateMany where { id: { in: ids } }
bulkDeleteMedia(ids) ==
  /\ catalog' = [i \in DOMAIN catalog |->
                   IF i \in ids THEN softDeleted(catalog[i], now) ELSE catalog[i]]
  /\ resp' = [Answer("bulkDeleteMedia", 200) EXCEPT !.ids = ids]
  /\ UNCHANGED <<store, featuredCache, now, nextId, nextUuid>>
  /\ UNCHANGED <<reordering, background>>

\* collectKeysToDelete(r2Keys, mediaType): the values pushed
collectKeysToDelete(r2Keys, mediaType) ==
  IF mediaType = "image"
    THEN {r2Keys[v] : v \in imageVariantNames \cap DOMAIN r2Keys}
  ELSE IF mediaType = "video"
    THEN {r2Keys[v] : v \in videoVariantNames \cap DOMAIN r2Keys}
  ELSE {}

\* a batch delete awaited with Promise.all: one rejection rejects the batch
batchDelete_all(bucket, keys, failing) ==
  [bucket    |-> bucket \ (keys \ failing),
   attempted |-> keys,
   rejected  |-> (keys \cap failing) # {},
   result    |-> {}]

\* storageService.batchDelete(keys): keys.map(key => this.delete(key)) starts
\* one DeleteObject per key (a DeleteObject of a key that names no object
\* succeeds), Promise.allSettled waits for all of them and never rejects;
\* the function returns no value
batchDelete(bucket, keys, failing) ==
  [bucket    |-> bucket \ (keys \ failing),
   attempted |-> keys,
   rejected  |-> FALSE,
   result    |-> {}]

\* a deleteMediaFiles that lets a failed deletion escape
deleteMediaFiles_throwing(bucket, r2Keys, mediaType, failingSizes) ==
  LET keys    == collectKeysToDelete(r2Keys, mediaType)
      failing == {k \in keys : k.size \in failingSizes}
      batch   == batchDelete(bucket, keys, failing)
  IN  [bucket |-> batch.bucket, attempted |-> batch.attempted,
       failed |-> failing, thrown |-> failing # {}, result |-> {}]

\* deleteMediaFiles(r2Keys, mediaType): collectKeysToDelete, batchDelete when
\* there are keys; the catch logs and does not rethrow; no value is returned.
\* failingSizes: the variants whose DeleteObject fails
deleteMediaFiles(bucket, r2Keys, mediaType, failingSizes) ==
  LET keys    == collectKeysToDelete(r2Keys, mediaType)
      failing == {k \in keys : k.size \in failingSizes}
      batch   == batchDelete(bucket, keys, failing)
  IN  [bucket |-> batch.bucket, attempted |-> batch.attempted,
       failed |-> failing, thrown |-> FALSE, result |-> {}]

\* the argument hardDeleteMedia hands to deleteMediaFiles
hardDeleteKeys(media) == media.r2Urls

\* hardDeleteMedia(id): findUnique where { id }, deleteMediaFiles, delete;
\* failingSizes: the variants whose DeleteObject fails
hardDeleteMedia(id, failingSizes) ==
  /\ IF Exists(catalog, id)
       THEN LET media == catalog[id]
                files == deleteMediaFiles(store, hardDeleteKeys(media),
                                          media.mediaType, failingSizes)
            IN  /\ store' = files.bucket
                /\ catalog' = IF files.thrown THEN catalog ELSE Without(catalog, id)
                /\ resp' = [Answer("hardDeleteMedia", IF files.thrown THEN 500 ELSE 200)
                              EXCEPT !.id = id, !.deletes = files.attempted,
                                     !.failed = files.failed,
                                     !.before = {Row(catalog, id)}]
       ELSE /\ resp' = [Answer("hardDeleteMedia", 404) EXCEPT !.id = id]
            /\ UNCHANGED <<catalog, store>>
  /\ UNCHANGED <<featuredCache, now, nextId, nextUuid>>
  /\ UNCHANGED <<reordering, background>>

\* storageService.batchDelete(keys) called on its own;
\* failing: the keys whose DeleteObject fails
StorageBatchDelete(keys, failing) ==
  LET batch == batchDelete(store, keys, failing)
  IN  /\ store' = batch.bucket
      /\ resp' = [Answer("batchDelete", IF batch.rejected THEN 500 ELSE 200)
                    EXCEPT !.keys = keys, !.deletes = batch.attempted,
                           !.failed = keys \cap failing, !.result = batch.result]
      /\ UNCHANGED <<catalog, featuredCache, now, nextId, nextUuid>>
      /\ UNCHANGED <<reordering, background>>

\* galleryMediaService.deleteMediaFiles(r2Keys, mediaType) called on its own
DeleteMediaFiles(r2Keys, mediaType, failingSizes) ==
  LET files == deleteMediaFiles(store, r2Keys, mediaType, failingSizes)
  IN  /\ store' = files.bucket
      /\ resp' = [Answer("deleteMediaFiles", IF files.thrown THEN 500 ELSE 200)
                    EXCEPT !.keys = {r2Keys[v] : v \in DOMAIN r2Keys},
                           !.deletes = files.attempted,
                           !.failed = files.failed, !.result = files.result]
      /\ UNCHANGED <<catalog, featuredCache, now, nextId, nextUuid>>
      /\ UNCHANGED <<reordering, background>>

(* --------------------------- retention sweep -------------------------- *)

\* a cutoff that ignores olderThanDays
cutoffDate_noDays(time, olderThanDays) == time

\* cutoffDate = new Date(); cutoffDate.setDate(cutoffDate.getDate() - olderThanDays)
cutoffDate(time, olderThanDays) == time - olderThanDays * Day

\* findMany where { deletedAt: { lt: cutoffDate } }: a null deletedAt
\* matches no comparison
mediaToDelete(cat, cutoff) ==
  {i \in DOMAIN cat : cat[i].deletedAt # NoTime /\ cat[i].deletedAt < cutoff}

\* cleanupDeletedMedia(olderThanDays): hardDeleteMedia of every selected row,
\* counting the ones that threw.
\* failingSizes: the variants whose DeleteObject fails;
\* failingIds: the rows whose prisma delete throws
cleanupDeletedMedia(olderThanDays, failingSizes, failingIds) ==
  LET selected == mediaToDelete(catalog, cutoffDate(now, olderThanDays))
      files(i) == deleteMediaFiles(store, hardDeleteKeys(catalog[i]),
                                   catalog[i].mediaType, failingSizes)
      errors   == {i \in selected : files(i).thrown \/ i \in failingIds}
      deleted  == selected \ errors
  IN  /\ store' = {k \in store : \A i \in selected : k \in files(i).bucket}
      /\ catalog' = [i \in (DOMAIN catalog) \ deleted |-> catalog[i]]
      /\ resp' = [Answer("cleanupDeletedMedia", 200)
                    EXCEPT !.days = olderThanDays,
                           !.deletedCount = Cardinality(deleted),
                           !.failedCount = Cardinality(errors),
                           !.ids = errors]
      /\ UNCHANGED <<featuredCache, now, nextId, nextUuid>>
      /\ UNCHANGED <<reordering, background>>

\* cleanupDeletedMedia(olderThanDays) up to its loop: the candidates are
\* selected
SweepSelect(olderThanDays) ==
  /\ sweeping = <<>>
  /\ sweeping' = <<[todo |-> mediaToDelete(catalog, cutoffDate(now, olderThanDays)),
                    days |-> olderThanDays, deletedCount |-> 0, failedCount |-> 0]>>
  /\ resp' = [Answer("cleanupDeletedMedia select", 0) EXCEPT !.days = olderThanDays]
  /\ UNCHANGED <<catalog, store, featuredCache, now, nextId, nextUuid>>
  /\ UNCHANGED <<reordering, inflight, scratch, procs, reading>>

\* one turn of the loop: await this.hardDeleteMedia(media.id), which finds
\* the row by id alone, deletes its files and the row, or throws when the
\* row is gone
SweepHardDelete(id) ==
  /\ sweeping # <<>>
  /\ id \in sweeping[1].todo
  /\ IF Exists(catalog, id)
       THEN LET media == catalog[id]
                files == deleteMediaFiles(store, hardDeleteKeys(media), media.mediaType, {})
            IN  /\ store' = files.bucket
                /\ catalog' = Without(catalog, id)
                /\ sweeping' = <<[sweeping[1] EXCEPT !.todo = @ \ {id},
                                                     !.deletedCount = @ + 1]>>
                /\ resp' = [Answer("cleanupDeletedMedia hardDeleteMedia", 200)
                              EXCEPT !.id = id, !.deletes = files.attempted,
                                     !.before = {Row(catalog, id)}]
       ELSE /\ sweeping' = <<[sweeping[1] EXCEPT !.todo = @ \ {id},
                                                 !.failedCount = @ + 1]>>
            /\ resp' = [Answer("cleanupDeletedMedia hardDeleteMedia", 404) EXCEPT !.id = id]
            /\ UNCHANGED <<catalog, store>>
  /\ UNCHANGED <<featuredCache, now, nextId, nextUuid>>
  /\ UNCHANGED <<reordering, inflight, scratch, procs, reading>>

\* the loop is over: { deletedCount, failedCount, errors, cutoffDate }
SweepReturn ==
  /\ sweeping # <<>>
  /\ sweeping[1].todo = {}
  /\ sweeping' = <<>>
  /\ resp' = [Answer("cleanupDeletedMedia", 200)
                EXCEPT !.days = sweeping[1].days,
                       !.deletedCount = sweeping[1].deletedCount,
                       !.failedCount = sweeping[1].failedCount]
  /\ UNCHANGED <<catalog, store, featuredCache, now, nextId, nextUuid>>
  /\ UNCHANGED <<reordering, inflight, scratch, procs, reading>>

(* ------------------------ GET /api/gallery/featured ------------------- *)

\* formatGalleryItem(item): the fields of the row that are served
formatGalleryItem(cat, id) ==
  [id |-> id, featured |-> cat[id].featured, displayOrder |-> cat[id].displayOrder]

\* formatSuccessResponse({ items })
formatSuccessResponse(items) == [success |-> TRUE, items |-> items]

\* the freshness test with <= in place of <
cacheFresh_inclusive(cache, time) ==
  /\ cache.data # NoData
  /\ cache.timestamp # NoTime
  /\ (time - cache.timestamp) <= cache.ttl

\* featuredCache.data && featuredCache.timestamp && (now - timestamp) < ttl
cacheFresh(cache, time) ==
  /\ cache.data # NoData
  /\ cache.timestamp # NoTime
  /\ (time - cache.timestamp) < cache.ttl

\* router.get('/featured')
GetFeatured ==
  /\ IF cacheFresh(featuredCache, now)
       THEN /\ resp' = [Answer("GET /featured", 200)
                          EXCEPT !.xcache = "HIT", !.data = featuredCache.data]
            /\ UNCHANGED featuredCache
       ELSE \E seq \in ByDisplayOrder(catalog, whereFeatured(catalog)) :
              LET items    == Take(seq, featuredLimit)
                  response == formatSuccessResponse(
                                [i \in DOMAIN items |-> formatGalleryItem(catalog, items[i])])
              IN  /\ featuredCache' = [data |-> response, timestamp |-> now,
                                       ttl |-> featuredCache.ttl]
                  /\ resp' = [Answer("GET /featured", 200)
                                EXCEPT !.xcache = "MISS", !.data = response,
                                       !.queried = TRUE]
  /\ UNCHANGED <<catalog, store, now, nextId, nextUuid>>
  /\ UNCHANGED <<reordering, background>>

\* router.get('/featured') up to its await: the freshness check fails and
\* the query runs on the catalog; the handler keeps the rows and the now it
\* read before the check
FeaturedQuery ==
  /\ reading = <<>>
  /\ ~cacheFresh(featuredCache, now)
  /\ \E seq \in ByDisplayOrder(catalog, whereFeatured(catalog)) :
       LET items    == Take(seq, featuredLimit)
           response == formatSuccessResponse(
                         [i \in DOMAIN items |-> formatGalleryItem(catalog, items[i])])
       IN  reading' = <<[response |-> response, now |-> now]>>
  /\ resp' = Answer("GET /featured query", 0)
  /\ UNCHANGED <<catalog, store, featuredCache, now, nextId, nextUuid>>
  /\ UNCHANGED <<reordering, inflight, scratch, procs, sweeping>>

\* router.get('/featured') after its await: the slot is overwritten with the
\* response and the now of the check, and the response is sent
FeaturedPopulate ==
  /\ reading # <<>>
  /\ featuredCache' = [data |-> reading[1].response, timestamp |-> reading[1].now,
                       ttl |-> featuredCache.ttl]
  /\ resp' = [Answer("GET /featured", 200)
                EXCEPT !.xcache = "MISS", !.data = reading[1].response,
                       !.queried = TRUE]
  /\ reading' = <<>>
  /\ UNCHANGED <<catalog, store, now, nextId, nextUuid>>
  /\ UNCHANGED <<reordering, inflight, scratch, procs, sweeping>>

(* -------------------------- PUT /api/gallery/:id ---------------------- *)

\* featuredCache.data = null
cleared(cache) == [cache EXCEPT !.data = NoData]

\* the PUT handler's "Clear featured cache if featured status changed"
putCache(cache, updateData) ==
  IF "featured" \in DOMAIN updateData THEN cleared(cache) ELSE cache

\* the fields of the body the PUT handler copies into updateData
allowedFields ==
  {"title", "caption", "alt", "category", "featured", "displayOrder",
   "location", "photographer", "dateTaken"}

\* for (const field of allowedFields) if (req.body[field] !== undefined) ...
updateData(body) == [f \in (DOMAIN body) \cap allowedFields |-> body[f]]

\* router.put('/:id'): validation, existence check, update, cache clear
PutGallery(id, body) ==
  /\ IF "category" \in DOMAIN body /\ ~validCategory(body.category)
       THEN /\ resp' = [Answer("PUT", 400) EXCEPT !.id = id]
            /\ UNCHANGED <<catalog, featuredCache>>
     ELSE IF id \notin Live(catalog)
       THEN /\ resp' = [Answer("PUT", 404) EXCEPT !.id = id]
            /\ UNCHANGED <<catalog, featuredCache>>
     ELSE /\ catalog' = Updated(catalog, id, updateData(body))
          /\ featuredCache' = putCache(featuredCache, updateData(body))
          /\ resp' = [Answer("PUT", 200) EXCEPT !.id = id]
  /\ UNCHANGED <<store, now, nextId, nextUuid>>
  /\ UNCHANGED <<reordering, background>>

(* ------------------------- DELETE /api/gallery/:id -------------------- *)

\* what the handler may read in req.query.permanent after validateGalleryDelete:
\* the string sent, or the boolean its toBoolean() sanitizer leaves there
queryPermanent(raw) ==
  {raw, IF raw = "true" THEN "boolean true" ELSE "boolean false"}

\* the handler's "Clear featured cache if deleted item was featured"
deleteCache(cache, media) ==
  IF media.featured THEN cleared(cache) ELSE cache

\* the row after galleryMediaService.deleteMedia(id, true)
permanentDelete(cat, id, time) == [cat EXCEPT ![id] = softDeleted(@, time)]

\* router.delete('/:id'); raw: the permanent query parameter as sent
DeleteGallery(id, raw) ==
  /\ \E q \in queryPermanent(raw) :
       LET permanent == (q = "true")
           a == [Answer("DELETE", 0) EXCEPT !.id = id, !.permanent = (raw = "true")]
       IN  IF ~Exists(catalog, id)
             THEN /\ resp' = [a EXCEPT !.status = 404]
                  /\ UNCHANGED <<catalog, featuredCache>>
           ELSE /\ catalog' = IF permanent
                                THEN permanentDelete(catalog, id, now)
                                ELSE [catalog EXCEPT ![id] = softDeleted(@, now)]
                /\ featuredCache' = deleteCache(featuredCache, catalog[id])
                /\ resp' = [a EXCEPT !.status = 200]
  /\ UNCHANGED <<store, now, nextId, nextUuid>>
  /\ UNCHANGED <<reordering, background>>

(* ------------------------- PUT /api/gallery/reorder ------------------- *)

\* items.map(item => item.id)
itemIds(items) == [i \in DOMAIN items |-> items[i].id]

\* ids.filter(id => !foundIds.has(id))
missingIds(ids, foundIds) ==
  LET F[i \in 0..Len(ids)] ==
        IF i = 0 THEN <<>>
        ELSE IF ids[i] \notin foundIds THEN Append(F[i - 1], ids[i]) ELSE F[i - 1]
  IN  F[Len(ids)]

\* prisma.$transaction(updates): the updates applied in order
applyUpdates(cat, items) ==
  LET F[i \in 0..Len(items)] ==
        IF i = 0 THEN cat
        ELSE [F[i - 1] EXCEPT ![items[i].id].displayOrder = items[i].displayOrder]
  IN  F[Len(items)]

\* the handler's "Verify all items exist": existingItems.length !== ids.length
reorderRejects(cat, items) ==
  Cardinality(Range(itemIds(items)) \cap Live(cat)) # Len(items)

\* router.put('/reorder') handler
PutReorder(items) ==
  /\ LET ids      == itemIds(items)
         foundIds == Range(ids) \cap Live(catalog)
         a == [Answer("PUT /reorder", 0) EXCEPT !.items = items]
     IN  IF reorderRejects(catalog, items)
           THEN /\ resp' = [a EXCEPT !.status = 404, !.missing = missingIds(ids, foundIds)]
                /\ UNCHANGED catalog
           ELSE /\ catalog' = applyUpdates(catalog, items)
                /\ resp' = [a EXCEPT !.status = 200]
  /\ UNCHANGED <<store, featuredCache, now, nextId, nextUuid>>
  /\ UNCHANGED <<reordering, background>>

\* the PUT routes of the gallery router, in the order they are registered
putRoutes == <<"/:id", "/reorder">>

\* the route pattern matches the path segment after /api/gallery/
routeMatches(pattern, segment) ==
  IF pattern = "/:id" THEN TRUE ELSE pattern = "/" \o segment

\* Express dispatch: the first registered route that matches
dispatch(routes, segment) ==
  routes[CHOOSE i \in DOMAIN routes :
           /\ routeMatches(routes[i], segment)
           /\ \A j \in 1..(i - 1) : ~routeMatches(routes[j], segment)]

\* param('id').isUUID() of validateGalleryUpdate: the ids of rows are UUIDs
isUUID(segment) == segment # "reorder"

\* PUT /api/gallery/reorder with a body { items }: dispatch, the matched
\* route's validators, its handler
HttpPutReorder(items) ==
  /\ LET route    == dispatch(putRoutes, "reorder")
         ids      == itemIds(items)
         foundIds == Range(ids) \cap Live(catalog)
         a == [Answer("PUT /api/gallery/reorder", 0)
                 EXCEPT !.items = items, !.handler = route]
     IN  IF route = "/:id"
           THEN /\ resp' = [a EXCEPT !.status = IF isUUID("reorder") THEN 404 ELSE 400]
                /\ UNCHANGED catalog
         ELSE IF reorderRejects(catalog, items)
           THEN /\ resp' = [a EXCEPT !.status = 404, !.missing = missingIds(ids, foundIds)]
                /\ UNCHANGED catalog
         ELSE /\ catalog' = applyUpdates(catalog, items)
              /\ resp' = [a EXCEPT !.status = 200]
  /\ UNCHANGED <<store, featuredCache, now, nextId, nextUuid, reordering, background>>

\* a transaction that keeps the updates made before the one that fails
transaction_noRollback(cat, items) ==
  LET F[i \in 0..Len(items)] ==
        IF i = 0 THEN [committed |-> TRUE, cat |-> cat]
        ELSE IF ~F[i - 1].committed \/ ~Exists(cat, items[i].id)
          THEN [committed |-> FALSE, cat |-> F[i - 1].cat]
        ELSE [committed |-> TRUE,
              cat |-> [F[i - 1].cat EXCEPT ![items[i].id].displayOrder =
                                             items[i].displayOrder]]
  IN  F[Len(items)]

\* prisma.$transaction(updates) with updates = update where { id }: every
\* update is applied, or (an id names no row: P2025) none is and it throws
transaction(cat, items) ==
  IF \A i \in DOMAIN items : Exists(cat, items[i].id)
    THEN [committed |-> TRUE, cat |-> applyUpdates(cat, items)]
    ELSE [committed |-> FALSE, cat |-> cat]

\* router.put('/reorder') handler up to its first await resolving: the
\* existence check, answered 404 or passed
ReorderCheck(items) ==
  /\ reordering = <<>>
  /\ LET ids      == itemIds(items)
         foundIds == Range(ids) \cap Live(catalog)
         a == [Answer("PUT /reorder", 0) EXCEPT !.items = items]
     IN  IF reorderRejects(catalog, items)
           THEN /\ resp' = [a EXCEPT !.status = 404, !.missing = missingIds(ids, foundIds)]
                /\ UNCHANGED reordering
           ELSE /\ resp' = Answer("PUT /reorder check", 0)
                /\ reordering' = items
  /\ UNCHANGED <<catalog, store, featuredCache, now, nextId, nextUuid, background>>

\* router.put('/reorder') handler from prisma.$transaction(updates) on:
\* success answered 200, a throw answered 500 by the catch
ReorderTransaction ==
  /\ reordering # <<>>
  /\ LET t == transaction(catalog, reordering)
         a == [Answer("PUT /reorder", 0) EXCEPT !.items = reordering]
     IN  /\ catalog' = t.cat
         /\ resp' = [a EXCEPT !.status = IF t.committed THEN 200 ELSE 500]
  /\ reordering' = <<>>
  /\ UNCHANGED <<store, featuredCache, now, nextId, nextUuid, background>>

(* ------------------------------ admin routes -------------------------- *)

\* admin router.put('/reorder'): one transaction of updates where { id }
AdminReorder(items) ==
  /\ LET a == [Answer("admin PUT /reorder", 0) EXCEPT !.items = items]
         t == transaction(catalog, items)
     IN  /\ catalog' = t.cat
         /\ resp' = [a EXCEPT !.status = IF t.committed THEN 200 ELSE 404]
  /\ UNCHANGED <<store, featuredCache, now, nextId, nextUuid>>
  /\ UNCHANGED <<reordering, background>>

\* the featured cache after the admin PATCH handler
adminPatchCache(cache, data) == cache

\* admin router.patch('/:id'): update where { id }
AdminPatch(id, data) ==
  /\ IF Exists(catalog, id)
       THEN /\ catalog' = Updated(catalog, id, data)
            /\ resp' = [Answer("admin PATCH", 200) EXCEPT !.id = id]
       ELSE /\ resp' = [Answer("admin PATCH", 404) EXCEPT !.id = id]
            /\ UNCHANGED catalog
  /\ featuredCache' = adminPatchCache(featuredCache, data)
  /\ UNCHANGED <<store, now, nextId, nextUuid>>
  /\ UNCHANGED <<reordering, background>>

\* admin router.delete('/:id'): update where { id }, data { deletedAt }
AdminDelete(id) ==
  /\ IF Exists(catalog, id)
       THEN /\ catalog' = [catalog EXCEPT ![id] = softDeleted(@, now)]
            /\ resp' = [Answer("admin DELETE", 200) EXCEPT !.id = id]
       ELSE /\ resp' = [Answer("admin DELETE", 404) EXCEPT !.id = id]
            /\ UNCHANGED catalog
  /\ UNCHANGED <<store, featuredCache, now, nextId, nextUuid>>
  /\ UNCHANGED <<reordering, background>>

\* admin router.post('/bulk-delete'): updateMany where { id: { in: itemIds } }
AdminBulkDelete(ids) ==
  /\ IF ids = {}
       THEN /\ resp' = Answer("admin bulk-delete", 400)
            /\ UNCHANGED catalog
       ELSE /\ catalog' = [i \in DOMAIN catalog |->
                             IF i \in ids THEN softDeleted(catalog[i], now) ELSE catalog[i]]
            /\ resp' = Answer("admin bulk-delete", 200)
  /\ UNCHANGED <<store, featuredCache, now, nextId, nextUuid>>
  /\ UNCHANGED <<reordering, background>>

(* ------------------------------ input sets ---------------------------- *)

\* ids a request may name: every id the catalog can hold and one it never holds
AnyIds == 1..(MaxRows + 1)

\* longest items array of a reorder request
MaxItems == 2

\* reorder requests: any ids (repeats included), each item asking for the
\* position it has in the request
ItemLists ==
  UNION { {[i \in 1..n |-> [id |-> ids[i], displayOrder |-> i - 1]] : ids \in [1..n -> AnyIds]}
          : n \in 1..MaxItems }

\* sets of ids a bulk request may name
IdSets == {S \in SUBSET AnyIds : Cardinality(S) <= 2}

(* ----------------------- lifecycle specification ---------------------- *)

\* Uploads that succeed, every service method, the gallery and admin
\* handlers that change or read rows.
LifeFiles == {f \in Files : f.originalname \in {"a.jpg", "v.mp4"}}

LifeBodies == {b \in Bodies : b.category = NULL /\ b.displayOrder = 0}

LifePatches == {[featured |-> TRUE], [displayOrder |-> 1]}

SingleItems == {<<[id |-> i, displayOrder |-> 1]>> : i \in AnyIds}

Next ==
  \/ \E file \in LifeFiles, body \in LifeBodies : PostGallery(file, body, NoFault)
  \/ \E id \in AnyIds, body \in LifePatches : PutGallery(id, body)
  \/ \E id \in AnyIds, raw \in {"true", "false"} : DeleteGallery(id, raw)
  \/ \E items \in SingleItems : PutReorder(items)
  \/ \E items \in SingleItems : AdminReorder(items)
  \/ \E id \in AnyIds, data \in LifePatches : AdminPatch(id, data)
  \/ \E id \in AnyIds : AdminDelete(id)
  \/ \E ids \in IdSets : AdminBulkDelete(ids)
  \/ \E id \in AnyIds : getMediaById(id)
  \/ \E m \in {NULL, "image"}, f \in {"any", "true"} : getMediaList(NULL, m, f)
  \/ getMediaList("general", "video", "false")
  \/ \E q \in {"a.jpg", "v.mp4"} : searchMedia(q)
  \/ \E c \in {"general", "other"} : getMediaByCategory(c, 100)
  \/ getFeaturedMedia(featuredLimit)
  \/ \E id \in AnyIds, data \in LifePatches : updateMediaMetadata(id, data)
  \/ \E id \in AnyIds : deleteMedia(id)
  \/ \E id \in AnyIds : restoreDeletedMedia(id)
  \/ \E ids \in IdSets : bulkDeleteMedia(ids)
  \/ \E id \in AnyIds, failing \in {{}, {"original"}} :
       hardDeleteMedia(id, failing)

Spec == Init /\ [][Next]_vars

(* ------------------------- upload specification ----------------------- *)

\* POST /api/gallery and uploadMedia with every file and every fault.
UploadBodies == {b \in Bodies : b.category = NULL /\ b.displayOrder = 0}

NextUpload ==
  \/ \E file \in Files, body \in UploadBodies, fault \in Faults :
       PostGallery(file, body, fault)
  \/ \E file \in Files, fault \in Faults : UploadMedia(file, fault)
  \/ \E key \in inflight, done \in BOOLEAN : PutObjectSettles(key, done)

SpecUpload == Init /\ [][NextUpload]_vars

(* ----------------------- featured cache specification ----------------- *)

\* The featured read, the clock, and every handler and service method that
\* changes which rows are featured and live.
CacheBodies == {b \in Bodies : b.category = NULL /\ b.displayOrder = 0}

CachePatches == {[featured |-> TRUE], [featured |-> FALSE]}

NextCache ==
  \/ Tick
  \/ GetFeatured
  \/ \E body \in CacheBodies : PostGallery(CHOOSE f \in Files : f.originalname = "a.jpg",
                                           body, NoFault)
  \/ \E id \in AnyIds, body \in CachePatches : PutGallery(id, body)
  \/ \E id \in AnyIds, raw \in {"true", "false"} : DeleteGallery(id, raw)
  \/ \E id \in AnyIds, data \in CachePatches : AdminPatch(id, data)
  \/ \E id \in AnyIds : AdminDelete(id)
  \/ \E id \in AnyIds : restoreDeletedMedia(id)
  \/ \E id \in AnyIds : hardDeleteMedia(id, {})

SpecCache == Init /\ [][NextCache]_vars

(* -------------------------- reorder specification --------------------- *)

\* The two reorder handlers, and the PUT /api/gallery/reorder request as the
\* router dispatches it, over rows that are live, soft-deleted or gone.
ReorderBodies == {b \in Bodies : b.category = NULL /\ ~b.featured}

NextReorder ==
  \/ \E body \in ReorderBodies : PostGallery(CHOOSE f \in Files : f.originalname = "a.jpg",
                                             body, NoFault)
  \/ \E id \in AnyIds : deleteMedia(id)
  \/ \E id \in AnyIds : restoreDeletedMedia(id)
  \/ \E id \in AnyIds : hardDeleteMedia(id, {})
  \/ \E items \in ItemLists : PutReorder(items)
  \/ \E items \in ItemLists : AdminReorder(items)
  \/ \E items \in ItemLists : HttpPutReorder(items)

SpecReorder == Init /\ [][NextReorder]_vars

(* ------------------------ interleaving specification ------------------ *)

\* The gallery reorder handler as two steps (existence check, transaction)
\* with other requests running between them, and the admin reorder.
NextInterleave ==
  \/ \E body \in ReorderBodies : PostGallery(CHOOSE f \in Files : f.originalname = "a.jpg",
                                             body, NoFault)
  \/ \E id \in AnyIds : deleteMedia(id)
  \/ \E id \in AnyIds : hardDeleteMedia(id, {})
  \/ \E items \in ItemLists : ReorderCheck(items)
  \/ ReorderTransaction
  \/ \E items \in ItemLists : AdminReorder(items)

SpecInterleave == Init /\ [][NextInterleave]_vars

(* -------------------- concurrent requests specifications -------------- *)

\* The featured read as two steps (check and query, then populate) with the
\* gallery router's invalidating mutations running between them.
NextCacheRace ==
  \/ Tick
  \/ GetFeatured
  \/ FeaturedQuery
  \/ FeaturedPopulate
  \/ \E body \in CacheBodies : PostGallery(CHOOSE f \in Files : f.originalname = "a.jpg",
                                           body, NoFault)
  \/ \E id \in AnyIds, body \in CachePatches : PutGallery(id, body)
  \/ \E id \in AnyIds : DeleteGallery(id, "false")

SpecCacheRace == Init /\ [][NextCacheRace]_vars

\* The retention sweep as its steps (select, one hard delete per candidate,
\* return) with soft deletes and restores running between them.
NextSweepRace ==
  \/ Tick
  \/ \E body \in ReorderBodies : PostGallery(CHOOSE f \in Files : f.originalname = "a.jpg",
                                             body, NoFault)
  \/ \E id \in AnyIds : deleteMedia(id)
  \/ \E id \in AnyIds : restoreDeletedMedia(id)
  \/ \E id \in AnyIds : hardDeleteMedia(id, {})
  \/ SweepSelect(0)
  \/ \E id \in AnyIds : SweepHardDelete(id)
  \/ SweepReturn

SpecSweepRace == Init /\ [][NextSweepRace]_vars

(* ----------------------- metadata update specification ---------------- *)

\* field objects handed to updateMediaMetadata and sent as PUT bodies:
\* metadata fields, and columns that are not metadata
UpdatePatches ==
  { [featured |-> TRUE],
    [category |-> "ceremony"],
    [deletedAt |-> NoTime],
    [r2ObjectKey |-> generateGalleryKey("images", "a.jpg", "original", 0)] }

UpdateBodies == {b \in Bodies : ~b.featured /\ b.displayOrder = 0}

\* Uploads with and without a category, soft deletes, and metadata updates
\* through the service method and through PUT /api/gallery/:id.
NextUpdate ==
  \/ \E file \in LifeFiles, body \in UpdateBodies : PostGallery(file, body, NoFault)
  \/ \E id \in AnyIds : deleteMedia(id)
  \/ \E id \in AnyIds, data \in UpdatePatches : updateMediaMetadata(id, data)
  \/ \E id \in AnyIds, body \in UpdatePatches : PutGallery(id, body)

SpecUpdate == Init /\ [][NextUpdate]_vars

(* ---------------------- video processor specification ----------------- *)

Millis == 0..MaxMillis

\* Metadata probes and thumbnail generations that overlap, with the
\* millisecond each reads from the clock.
NextVideo ==
  \/ \E ms \in Millis : ExtractMetadataStart(ms)
  \/ \E pid \in 1..MaxProcs, outcome \in {"ok", "err", "nostream"} :
       FfprobeCallback(pid, outcome)
  \/ \E ms1 \in Millis, ms2 \in Millis : GenerateThumbnailStart(ms1, ms2)
  \/ \E pid \in 1..MaxProcs, outcome \in {"ok", "read", "sharp"} :
       ScreenshotsEnd(pid, outcome)
  \/ \E pid \in 1..MaxProcs : ScreenshotsError(pid)

SpecVideo == Init /\ [][NextVideo]_vars

(* ----------------- storage and retention specification ---------------- *)

\* the r2Keys of a row: the key of every variant it stores
KeysOf(row) == [v \in DOMAIN row.r2Urls |-> extractKeyFromUrl(row.r2Urls[v])]

SweepDays == 0..MaxDays

\* Soft deletes at different times, the clock in units and in days, the
\* retention sweep, and the storage deletes called with a row's keys.
NextSweep ==
  \/ Tick
  \/ TickDay
  \/ \E body \in ReorderBodies : PostGallery(CHOOSE f \in Files : f.originalname = "a.jpg",
                                             body, NoFault)
  \/ \E id \in AnyIds : deleteMedia(id)
  \/ \E days \in SweepDays, sizes \in {{}, {"original"}}, failingIds \in {{}, {1}} :
       cleanupDeletedMedia(days, sizes, failingIds)
  \/ \E id \in DOMAIN catalog, sizes \in {{}, {"thumbnail"}} :
       StorageBatchDelete({KeysOf(catalog[id])[v] : v \in DOMAIN KeysOf(catalog[id])},
                          {k \in store : k.size \in sizes})
  \/ \E id \in DOMAIN catalog, sizes \in {{}, {"thumbnail"}} :
       DeleteMediaFiles(KeysOf(catalog[id]), catalog[id].mediaType, sizes)

SpecSweep == Init /\ [][NextSweep]_vars

(* ============================== properties ============================ *)

\* the kind uploadMedia gives a file
KindOf(file) == IF startsWithVideo(file.mimetype) THEN "video" ELSE "image"

\* the declared size exceeds the kind's maximum or the MIME type is not in
\* the kind's allow-list
InvalidForKind(file) ==
  IF KindOf(file) = "video"
    THEN file.size > videoMaxSize \/ file.mimetype \notin videoAllowedTypes
    ELSE file.size > imageMaxSize \/ file.mimetype \notin imageAllowedTypes

\* the object keys a catalog row's URLs stand for
RowKeys(row) == {extractKeyFromUrl(row.r2Urls[v]) : v \in DOMAIN row.r2Urls}

\* the variants an asset of a kind has
VariantNames(mediaType) ==
  IF mediaType = "video" THEN videoVariantNames ELSE imageVariantNames

(* C1: an upload (POST /api/gallery or uploadMedia called directly) of a file
   whose size exceeds its kind's maximum or whose MIME type is not in its
   kind's allow-list fails no later than validation, puts no object into the
   bucket and creates no catalog row. *)
C1_InvalidFileNoWrites ==
  [][(resp'.op \in {"POST", "uploadMedia"} /\ InvalidForKind(resp'.file))
       => /\ resp'.status \notin {200, 201}
          /\ resp'.stage \in {"middleware", "validation"}
          /\ resp'.writes = {}
          /\ store' = store
          /\ catalog' = catalog]_vars

\* uploadMedia refused an oversized image of an allowed type at validation
C1_Witness ==
  /\ resp.op = "uploadMedia"
  /\ resp.file.mimetype \in imageAllowedTypes
  /\ resp.file.size > imageMaxSize
  /\ resp.stage = "validation"
  /\ resp.status = 500

(* C2: a catalog row is created only by an upload all of whose object writes
   succeeded (the row's objects are exactly the objects that upload wrote, one
   per variant of its kind, and all are in the bucket); an upload that stops
   at processing or at a failed write creates no row. *)
C2_RecordOnlyAfterAllWrites ==
  [][/\ \A id \in (DOMAIN catalog') \ (DOMAIN catalog) :
          /\ resp'.op = "POST" /\ resp'.status = 201 /\ resp'.id = id
          /\ DOMAIN catalog'[id].r2Urls = VariantNames(catalog'[id].mediaType)
          /\ RowKeys(catalog'[id]) = resp'.writes
          /\ resp'.writes \subseteq store'
     /\ (resp'.op = "POST" /\ resp'.stage \in {"processing", "storage", "db"})
          => catalog' = catalog]_vars

\* a POST whose derived write failed after the original was stored: 500, no row
C2_Witness ==
  /\ resp.op = "POST"
  /\ resp.stage = "storage"
  /\ resp.status = 500
  /\ resp.writes # {}
  /\ resp.writes \subseteq store
  /\ resp.id = 0
  /\ catalog = <<>>

(* C3: a hardDeleteMedia that succeeds with every DeleteObject succeeding
   leaves none of the asset's objects in the bucket (the objects written for
   the asset at upload are the keys its stored URLs stand for). *)
C3_HardDeleteRemovesObjects ==
  [][(resp'.op = "hardDeleteMedia" /\ resp'.status = 200 /\ resp'.failed = {})
       => RowKeys(catalog[resp'.id]) \cap store' = {}]_vars

\* ids the catalog gave out whose row is gone
Gone(cat, next) == {i \in 1..(next - 1) : i \notin DOMAIN cat}

(* C4: once a row is removed by hardDeleteMedia it stays absent: no later
   call brings the id back, getMediaById finds nothing under it, and every
   call that names it answers not-found. *)
C4_HardDeleteTerminal ==
  [][\A i \in Gone(catalog, nextId) :
       /\ i \notin DOMAIN catalog'
       /\ whereById(catalog', i) = {}
       /\ (resp'.id = i => resp'.status = 404)
       /\ ((resp'.op = "PUT /reorder" /\ i \in Range(itemIds(resp'.items)))
             => resp'.status = 404)]_vars

\* restoreDeletedMedia was tried on a hard-deleted id and answered not-found
C4_Witness ==
  /\ resp.op = "restoreDeletedMedia"
  /\ resp.id \in Gone(catalog, nextId)
  /\ resp.status = 404

(* C5: DELETE /api/gallery/:id?permanent=true that answers 200 has removed
   the row (hard delete); without the parameter the row stays with its
   deletion timestamp set. *)
C5_PermanentDeleteRemovesRow ==
  (resp.op = "DELETE" /\ resp.status = 200)
    => IF resp.permanent
         THEN resp.id \notin DOMAIN catalog
         ELSE resp.id \in DOMAIN catalog /\ catalog[resp.id].deletedAt # NoTime

ServiceReads ==
  {"getMediaById", "getMediaList", "searchMedia", "getMediaByCategory", "getFeaturedMedia"}

(* C6: every row a service read (getMediaById, getMediaList, searchMedia,
   getMediaByCategory, getFeaturedMedia) returns is a row of the catalog
   whose deletion timestamp is not set. *)
C6_ReadsExcludeSoftDeleted ==
  resp.op \in ServiceReads
    => \A r \in resp.rows :
         /\ r.id \in DOMAIN catalog
         /\ r.row = catalog[r.id]
         /\ r.row.deletedAt = NoTime

\* getMediaList returned rows while a soft-deleted row of the same kind and
\* category was in the catalog
C6_Witness ==
  /\ resp.op = "getMediaList"
  /\ \E r \in resp.rows : \E i \in DOMAIN catalog :
       /\ catalog[i].deletedAt # NoTime
       /\ catalog[i].mediaType = r.row.mediaType
       /\ catalog[i].category = r.row.category
       /\ catalog[i].featured = r.row.featured

\* the ids a featured payload serves
PayloadIds(data) == {data.items[i].id : i \in DOMAIN data.items}

(* C7: every asset in a featured payload served from the cache is, at the
   time it is served, a row of the catalog that is not soft-deleted. *)
C7_CachedPayloadLive ==
  (resp.op = "GET /featured" /\ resp.xcache = "HIT")
    => PayloadIds(resp.data) \subseteq Live(catalog)

\* a step that changes featured visibility: a featured row is created, a
\* row's featured flag changes, or a featured live row is soft-deleted or removed
ChangesFeaturedVisibility ==
  \/ \E i \in (DOMAIN catalog') \ (DOMAIN catalog) : catalog'[i].featured
  \/ \E i \in (DOMAIN catalog) \cap (DOMAIN catalog') :
       catalog'[i].featured # catalog[i].featured
  \/ \E i \in whereFeatured(catalog) : i \notin Live(catalog')

(* C8: every step that changes featured visibility leaves the cache slot's
   data null. *)
C8_MutationInvalidatesCache ==
  [][ChangesFeaturedVisibility => featuredCache'.data = NoData]_vars

(* C9: GET /api/gallery/featured is a hit exactly when the slot holds data
   and now - timestamp < ttl: a hit serves the slot's data without querying
   and leaves the slot alone; otherwise the read queries the catalog, serves
   the live featured rows and stores that payload with timestamp = now. *)
C9_CacheHitRule ==
  [][resp'.op = "GET /featured"
       => IF featuredCache.data # NoData /\ (now - featuredCache.timestamp) < ttl
            THEN /\ resp'.xcache = "HIT"
                 /\ ~resp'.queried
                 /\ resp'.data = featuredCache.data
                 /\ featuredCache' = featuredCache
            ELSE /\ resp'.xcache = "MISS"
                 /\ resp'.queried
                 /\ PayloadIds(resp'.data) = whereFeatured(catalog)
                 /\ featuredCache'.data = resp'.data
                 /\ featuredCache'.timestamp = now]_vars

\* a featured read answered from the cache with a payload that has items
C9_Witness ==
  /\ resp.op = "GET /featured"
  /\ resp.xcache = "HIT"
  /\ resp.data.items # <<>>
  /\ featuredCache.timestamp = now

\* the ids of a reorder request that name no live row
NotLive(cat, items) == {items[i].id : i \in DOMAIN items} \ Live(cat)

(* C10: a reorder request (PUT /api/gallery/reorder) whose items name at
   least one id that is unknown or soft-deleted fails, reports exactly those
   ids as missing and changes no row. *)
C10_ReorderRejectsMissing ==
  [][(resp'.op = "PUT /api/gallery/reorder" /\ NotLive(catalog, resp'.items) # {})
       => /\ resp'.status = 404
          /\ Range(resp'.missing) = NotLive(catalog, resp'.items)
          /\ catalog' = catalog]_vars

\* the displayOrder the last item naming id asks for
LastOrder(items, id) ==
  LET last == CHOOSE i \in DOMAIN items :
                /\ items[i].id = id
                /\ \A j \in DOMAIN items : items[j].id = id => j <= i
  IN  items[last].displayOrder

(* C11: a reorder (the PUT /api/gallery/reorder request, or the body of its
   handler run on its own) with a non-empty list of items (ids may repeat)
   all of whose ids name live rows answers success, and afterwards each
   named row's displayOrder is the one the last item naming it asked for. *)
C11_ReorderAppliesLast ==
  [][(resp'.op \in {"PUT /reorder", "PUT /api/gallery/reorder"} /\ resp'.items # <<>>
        /\ NotLive(catalog, resp'.items) = {})
       => /\ resp'.status = 200
          /\ \A id \in Range(itemIds(resp'.items)) :
               catalog'[id].displayOrder = LastOrder(resp'.items, id)]_vars


(* C12: when a reorder call ends (gallery handler or admin handler, with
   success or with an error, whatever ran between the gallery handler's
   existence check and its transaction), either every named row exists and
   has the displayOrder asked for it, or the call changed no row. *)
C12_ReorderAllOrNothing ==
  [][(resp'.op \in {"PUT /reorder", "admin PUT /reorder"})
       => \/ \A id \in Range(itemIds(resp'.items)) :
               /\ id \in DOMAIN catalog'
               /\ catalog'[id].displayOrder = LastOrder(resp'.items, id)
          \/ catalog' = catalog]_vars

\* an admin reorder ended with not-found because a named row was
\* hard-deleted before its transaction ran, and a named live row kept an
\* order other than the one asked for
C12_Witness ==
  /\ resp.op = "admin PUT /reorder"
  /\ resp.status = 404
  /\ \E i, j \in DOMAIN resp.items :
       /\ resp.items[i].id \in Gone(catalog, nextId)
       /\ resp.items[j].id \in Live(catalog)
       /\ catalog[resp.items[j].id].displayOrder # resp.items[j].displayOrder

(* C13: a PUT request to /api/gallery/reorder whose items name distinct
   live rows is dispatched to the bulk-reorder handler (not to PUT /:id), is
   answered with success, and the reorder is applied. *)
C13_ReorderRouteReached ==
  [][(/\ resp'.op = "PUT /api/gallery/reorder"
      /\ NotLive(catalog, resp'.items) = {}
      /\ Cardinality(Range(itemIds(resp'.items))) = Len(resp'.items))
       => /\ resp'.handler = "/reorder"
          /\ resp'.status = 200
          /\ \A id \in Range(itemIds(resp'.items)) :
               catalog'[id].displayOrder = LastOrder(resp'.items, id)]_vars

\* the fields of a row other than its deletion timestamp
VisibleFields == {"filename", "mediaType", "category", "r2ObjectKey", "r2Urls",
                  "featured", "displayOrder"}

\* the list, search and featured reads that match the row all return it
ReturnedByReads(cat, id) ==
  /\ id \in whereList(cat, NULL, NULL, "any")
  /\ id \in whereList(cat, cat[id].category, cat[id].mediaType,
                       IF cat[id].featured THEN "true" ELSE "false")
  /\ id \in whereSearch(cat, cat[id].filename)
  /\ cat[id].featured => id \in whereFeatured(cat)

\* no list, search or featured read returns the row
ReturnedByNoRead(cat, id) ==
  /\ id \notin whereList(cat, NULL, NULL, "any")
  /\ id \notin whereList(cat, cat[id].category, cat[id].mediaType,
                          IF cat[id].featured THEN "true" ELSE "false")
  /\ id \notin whereSearch(cat, cat[id].filename)
  /\ id \notin whereFeatured(cat)

(* C14: deleteMedia(id) of an active asset changes nothing of its record but
   the deletion timestamp and takes it out of the list, search and featured
   reads; restoreDeletedMedia(id) of a soft-deleted asset changes nothing but
   the deletion timestamp, which it clears, and the reads return the asset
   again: the record after the round trip equals the original. *)
C14_DeleteRestoreRoundTrip ==
  [][/\ (resp'.op = "deleteMedia" /\ resp'.status = 200 /\ resp'.id \in Live(catalog))
          => /\ \A f \in VisibleFields : catalog'[resp'.id][f] = catalog[resp'.id][f]
             /\ catalog'[resp'.id].deletedAt # NoTime
             /\ ReturnedByNoRead(catalog', resp'.id)
     /\ (resp'.op = "restoreDeletedMedia" /\ resp'.status = 200
            /\ resp'.id \in (DOMAIN catalog) \ Live(catalog))
          => /\ \A f \in VisibleFields : catalog'[resp'.id][f] = catalog[resp'.id][f]
             /\ catalog'[resp'.id].deletedAt = NoTime
             /\ ReturnedByReads(catalog', resp'.id)]_vars

\* a featured asset that was soft-deleted has been restored and is live
C14_Witness ==
  /\ resp.op = "restoreDeletedMedia"
  /\ resp.status = 200
  /\ \E b \in resp.before : b.id = resp.id /\ b.row.deletedAt # NoTime /\ b.row.featured
  /\ resp.id \in Live(catalog)
  /\ catalog[resp.id].featured

(* C15: updateMediaMetadata, deleteMedia and bulkDeleteMedia given an id that
   is unknown or already soft-deleted fail with not-found and leave the record
   of that id as it was, its deletion timestamp included. *)
C15_NotLiveIdsRejected ==
  [][/\ (resp'.op \in {"updateMediaMetadata", "deleteMedia"}
            /\ resp'.id \notin Live(catalog))
          => /\ resp'.status = 404
             /\ catalog' = catalog
     /\ (resp'.op = "bulkDeleteMedia" /\ resp'.ids \ Live(catalog) # {})
          => /\ resp'.status = 404
             /\ \A id \in (resp'.ids \ Live(catalog)) \cap DOMAIN catalog :
                    catalog'[id] = catalog[id]]_vars

(* C16: when object deletions fail during hardDeleteMedia(id) of an existing
   row, the failure is not propagated: the call succeeds and the row is gone. *)
C16_DeleteFailureNotPropagated ==
  [][(resp'.op = "hardDeleteMedia" /\ resp'.id \in DOMAIN catalog /\ resp'.failed # {})
       => /\ resp'.status = 200
          /\ resp'.id \notin DOMAIN catalog']_vars

\* a hard delete whose DeleteObject of the original failed has removed the row
C16_Witness ==
  /\ resp.op = "hardDeleteMedia"
  /\ resp.status = 200
  /\ \E k \in resp.failed : k.size = "original"
  /\ resp.before # {}
  /\ resp.id \notin DOMAIN catalog

(* C17: batchDelete(keys) attempts the deletion of every key: a key whose
   delete fails stops no other attempt (every other key is gone from the
   bucket) and does not make the call throw. *)
C17_BatchDeleteIsolatesFailures ==
  [][(resp'.op = "batchDelete")
       => /\ resp'.deletes = resp'.keys
          /\ \A k \in resp'.keys \ resp'.failed : k \notin store'
          /\ resp'.status = 200]_vars

\* a batch in which one delete failed and the other stored objects were removed
C17_Witness ==
  /\ resp.op = "batchDelete"
  /\ resp.status = 200
  /\ resp.failed # {}
  /\ resp.failed \subseteq store
  /\ Cardinality(resp.keys \ resp.failed) >= 2
  /\ (resp.keys \ resp.failed) \cap store = {}

(* C18: batchDelete and deleteMediaFiles return a result that partitions the
   requested keys into a deleted and a failed set, a key being in the failed
   set exactly when its delete failed. *)
C18_DeleteResultPartitionsKeys ==
  (resp.op \in {"batchDelete", "deleteMediaFiles"})
    => \E r \in resp.result :
         /\ r.deleted \cup r.failed = resp.keys
         /\ r.deleted \cap r.failed = {}
         /\ r.failed = resp.failed

\* the rows a sweep with olderThanDays may remove: soft-deleted at least
\* that many days before the sweep
OldEnough(cat, time, olderThanDays) ==
  {i \in DOMAIN cat : /\ cat[i].deletedAt # NoTime
                      /\ time - cat[i].deletedAt >= olderThanDays * Day}

(* C19: cleanupDeletedMedia(olderThanDays) removes only rows soft-deleted at
   least olderThanDays days before the sweep; every other row stays as it
   was, with its stored objects; deletedCount is the number of rows removed
   and failedCount the number of selected rows that were not removed. *)
C19_SweepRemovesOnlyOld ==
  [][(resp'.op = "cleanupDeletedMedia")
       => LET old     == OldEnough(catalog, now, resp'.days)
              removed == (DOMAIN catalog) \ (DOMAIN catalog')
          IN  /\ removed \subseteq old
              /\ \A i \in (DOMAIN catalog) \ old :
                    /\ i \in DOMAIN catalog'
                    /\ catalog'[i] = catalog[i]
                    /\ RowKeys(catalog[i]) \cap store \subseteq store'
              /\ resp'.deletedCount = Cardinality(removed)
              /\ resp'.failedCount = Cardinality(resp'.ids)
              /\ resp'.ids \subseteq old \cap DOMAIN catalog']_vars

\* a sweep with olderThanDays = 1 has removed one row and left a row that
\* was soft-deleted more recently
C19_Witness ==
  /\ resp.op = "cleanupDeletedMedia"
  /\ resp.days = 1
  /\ resp.deletedCount = 1
  /\ resp.failedCount = 0
  /\ \E i \in DOMAIN catalog : /\ catalog[i].deletedAt # NoTime
                               /\ now - catalog[i].deletedAt < Day

(* C20: a catalog row is removed only while the asset is soft-deleted: no
   step takes a live row out of the catalog. *)
C20_RemovedOnlyWhileSoftDeleted ==
  [][\A i \in (DOMAIN catalog) \ (DOMAIN catalog') : catalog[i].deletedAt # NoTime]_vars

(* C21: a successful upload writes exactly the objects of its kind's variant
   set (4 for an image, 2 for a video), and its url map has exactly those
   variant names, each mapped to the public URL of the key written for it. *)
C21_UploadWritesVariantSet ==
  [][(resp'.op \in {"POST", "uploadMedia"} /\ resp'.status \in {200, 201})
       => LET names == VariantNames(KindOf(resp'.file))
          IN  /\ store' \ store = resp'.writes
              /\ Cardinality(resp'.writes) = IF KindOf(resp'.file) = "video" THEN 2 ELSE 4
              /\ {k.size : k \in resp'.writes} = names
              /\ {u.name : u \in resp'.urls} = names
              /\ Cardinality(resp'.urls) = Cardinality(names)
              /\ \A u \in resp'.urls :
                    \E k \in resp'.writes :
                       /\ k.size = u.name
                       /\ u.url = [k EXCEPT !.base = publicUrl]]_vars

\* a video upload has returned its two objects and its two urls
C21_Witness ==
  /\ resp.op = "uploadMedia"
  /\ resp.status = 200
  /\ KindOf(resp.file) = "video"
  /\ Cardinality(resp.writes) = 2
  /\ Cardinality(resp.urls) = 2
  /\ resp.writes \subseteq store

(* C22: an upload that fails after it has written objects (a processing or
   storage failure after the original was written, or a failed catalog
   insert after all objects were written) sends no compensating delete: the
   objects it wrote are in the bucket, nothing else left the bucket, and no
   catalog row references them. *)
C22_FailedUploadLeavesObjects ==
  [][(resp'.op \in {"POST", "uploadMedia"} /\ resp'.status = 500 /\ resp'.writes # {})
       => /\ resp'.writes \subseteq store'
          /\ store \subseteq store'
          /\ catalog' = catalog
          /\ \A id \in DOMAIN catalog' :
                RowKeys(catalog'[id]) \cap resp'.writes = {}]_vars

\* the catalog insert failed after all four objects of an image were written
C22_Witness ==
  /\ resp.op = "POST"
  /\ resp.status = 500
  /\ resp.stage = "db"
  /\ Cardinality(resp.writes) = 4
  /\ resp.writes \subseteq store
  /\ \A id \in DOMAIN catalog : RowKeys(catalog[id]) \cap resp.writes = {}

(* C23: uploadVideo finishes metadata extraction and thumbnail generation
   before its first object-store upload starts: a video whose probe or
   thumbnail generation fails has written no object. *)
C23_VideoProcessedBeforeUpload ==
  [][(resp'.op \in {"POST", "uploadMedia"} /\ KindOf(resp'.file) = "video"
        /\ resp'.stage = "processing")
       => /\ resp'.writes = {}
          /\ store' = store]_vars

(* C24: an image upload call does not return, with a result or an error,
   before all its variant uploads have settled: no PutObject is in flight
   after an upload call, and every object enters the bucket during one. *)
C24_NoWriteAfterReturn ==
  [][/\ (resp'.op \in {"POST", "uploadMedia"}) => inflight' = inflight
     /\ (store' \ store # {}) => resp'.op \in {"POST", "uploadMedia"}]_vars

(* C25: every scratch file created by extractMetadata or generateThumbnail
   is deleted by the time the call settles, on every exit path. *)
C25_ScratchFilesDeleted ==
  [][(resp'.op \in {"extractMetadata", "generateThumbnail"})
       => resp'.paths \cap scratch' = {}]_vars

(* C26: two video-processing invocations that run at the same time use
   disjoint scratch paths. *)
C26_ScratchPathsDisjoint ==
  \A p \in DOMAIN procs : \A q \in DOMAIN procs :
     p # q => pathsOf(procs[p]) \cap pathsOf(procs[q]) = {}

(* C27: updateMediaMetadata(id, fields) writes and deletes no object, and
   whatever fields holds, the row's r2ObjectKey, r2Urls and deletedAt are
   after the call what they were before it. *)
C27_UpdateKeepsKeysAndDeletion ==
  [][(resp'.op = "updateMediaMetadata" /\ resp'.id \in DOMAIN catalog)
       => /\ store' = store
          /\ resp'.id \in DOMAIN catalog'
          /\ catalog'[resp'.id].r2ObjectKey = catalog[resp'.id].r2ObjectKey
          /\ catalog'[resp'.id].r2Urls = catalog[resp'.id].r2Urls
          /\ catalog'[resp'.id].deletedAt = catalog[resp'.id].deletedAt]_vars

(* C28: in every reachable state the category of every catalog row is one of
   wedding, engagement, pre-wedding, ceremony, reception, other. *)
C28_CategoryInClosedSet ==
  \A id \in DOMAIN catalog : catalog[id].category \in Categories

(* C29: a featured read that queried the catalog before an invalidating
   mutation committed does not store its payload into the slot after the
   mutation cleared it: the payload a read stores is the live featured rows
   of the catalog as it is when the payload is stored. *)
C29_NoStalePopulate ==
  [][(resp'.op = "GET /featured" /\ resp'.xcache = "MISS")
       => /\ PayloadIds(featuredCache'.data) = whereFeatured(catalog')
          /\ \A i \in DOMAIN featuredCache'.data.items :
                featuredCache'.data.items[i] =
                  formatGalleryItem(catalog', featuredCache'.data.items[i].id)]_vars

(* C30: the retention sweep removes no row that is not soft-deleted at the
   moment the row is deleted: a candidate restored after the selection keeps
   its row. *)
C30_SweepSparesRestored ==
  [][(resp'.op = "cleanupDeletedMedia hardDeleteMedia")
       => \A i \in (DOMAIN catalog) \ (DOMAIN catalog') :
             catalog[i].deletedAt # NoTime]_vars

====
